---- MODULE Spec2Model ----
(***************************************************************************)
(* Box-Cox transformation of gluonts/distribution/box_cox_tranform.py.     *)
(*                                                                         *)
(* Tensors are one-dimensional sequences of numbers.  Numbers are exact:   *)
(* a rational, or a rational combination a + b*t of one irrational atom t  *)
(* (ln x, exp x, x^e, softplus x), or one of the IEEE special values NaN,  *)
(* +inf, -inf.  Rounding of the floating-point backend is not modelled;    *)
(* its special values (division by zero, log and power outside their       *)
(* domain) are.                                                            *)
(***************************************************************************)
EXTENDS Integers, Sequences, FiniteSets, TLC

(***************************************************************************)
(* obj            which object exists: "none", "BoxCoxTransformOutput" or  *)
(*                "BoxCoxTranform"                                         *)
(* lb_obs, fix_lambda_2                 fields of the BoxCoxTransformOutput*)
(* lambda_1, lambda_2, tol_lambda_1     fields of the BoxCoxTranform       *)
(* op             the last call: "__init__", "domain_map", "f", "f_inv",   *)
(*                "log_abs_det_jac"                                        *)
(* arg, res       the arguments and the result of the last call            *)
(* pre            history: the z that f mapped to the argument of a f_inv  *)
(*                call made on f's result                                  *)
(***************************************************************************)
VARIABLES obj, lb_obs, fix_lambda_2, lambda_1, lambda_2, tol_lambda_1,
          op, arg, res, pre

vars == <<obj, lb_obs, fix_lambda_2, lambda_1, lambda_2, tol_lambda_1,
          op, arg, res, pre>>

\* Number of elements of every tensor of the model.
TensorLen == 2

\* Integer powers are computed exactly up to this value and saturate there.
ExactCap == 1000000

\* An absent value (Python's None, a field of an object that does not exist).
None == <<>>

(***************************************************************************)
(* Rationals: [n, d] with d > 0 and gcd(n, d) = 1.                         *)
(***************************************************************************)
RECURSIVE GCD(_, _)
GCD(m, n) == IF n = 0 THEN m ELSE GCD(n, m % n)

IAbs(i) == IF i < 0 THEN -i ELSE i

R(n, d) ==
    LET s == IF d < 0 THEN -1 ELSE 1
        g == GCD(IAbs(n), IAbs(d))
    IN  [n |-> (s * n) \div g, d |-> (s * d) \div g]

RZero == R(0, 1)
ROne == R(1, 1)

RAdd(p, q) == R(p.n * q.d + q.n * p.d, p.d * q.d)
RNeg(p) == [n |-> -p.n, d |-> p.d]
RSub(p, q) == RAdd(p, RNeg(q))
RMul(p, q) == R(p.n * q.n, p.d * q.d)
RInv(p) == R(p.d, p.n)
RLt(p, q) == p.n * q.d < q.n * p.d
RLe(p, q) == p.n * q.d <= q.n * p.d
RSign(p) == IF p.n > 0 THEN 1 ELSE IF p.n < 0 THEN -1 ELSE 0
RIsInt(p) == p.d = 1

\* b^n for naturals, saturating at ExactCap.
SatMul(r, b) ==
    IF r = 0 \/ b = 0 THEN 0
    ELSE IF r >= ExactCap \/ b >= ExactCap \/ r > ExactCap \div b THEN ExactCap
    ELSE r * b

RECURSIVE IPow(_, _)
IPow(b, n) ==
    IF n = 0 THEN 1
    ELSE IF b <= 1 THEN b
    ELSE IF n % 2 = 1 THEN SatMul(IPow(b, n - 1), b)
    ELSE LET h == IPow(b, n \div 2) IN SatMul(h, h)

\* The natural r with r^k = p, or -1 when p is no k-th power (p >= 0, k >= 1).
RECURSIVE RootFrom(_, _, _)
RootFrom(r, p, k) ==
    LET v == IPow(r, k)
    IN  IF v = p /\ v < ExactCap THEN r
        ELSE IF v > p \/ v >= ExactCap THEN -1
        ELSE RootFrom(r + 1, p, k)

IRoot(p, k) == IF p <= 1 \/ k = 1 THEN p ELSE RootFrom(1, p, k)

\* x^e for rationals x > 0 and e is an exactly computable rational.
RPowExact(x, e) ==
    LET k  == e.d
        m  == IAbs(e.n)
        rn == IRoot(x.n, k)
        rd == IRoot(x.d, k)
        pn == IF rn < 0 THEN ExactCap ELSE IPow(rn, m)
        pd == IF rd < 0 THEN ExactCap ELSE IPow(rd, m)
    IN  rn >= 0 /\ rd >= 0 /\ pn < ExactCap /\ pd < ExactCap

RPowValue(x, e) ==
    LET k  == e.d
        m  == IAbs(e.n)
        pn == IPow(IRoot(x.n, k), m)
        pd == IPow(IRoot(x.d, k), m)
    IN  IF e.n >= 0 THEN R(pn, pd) ELSE R(pd, pn)

(***************************************************************************)
(* Numbers: [k, s, a, b, f, x, e].                                         *)
(*   k = "nan"                 NaN                                         *)
(*   k = "inf"                 s * infinity, s in {1, -1}                  *)
(*   k = "fin", f = "none"     the rational a                              *)
(*   k = "fin", f = "ln"       a + b * ln(x)       (x > 0, x # 1)          *)
(*   k = "fin", f = "exp"      a + b * exp(x)      (x # 0)                 *)
(*   k = "fin", f = "pw"       a + b * x^e         (x > 0, x^e irrational  *)
(*                                                  or beyond ExactCap)    *)
(*   k = "fin", f = "sp"       a + b * softplus(x)                         *)
(*   k = "opq"                 a value the model does not track            *)
(***************************************************************************)
Num(k, s, a, b, f, x, e) ==
    [k |-> k, s |-> s, a |-> a, b |-> b, f |-> f, x |-> x, e |-> e]

NaN == Num("nan", 0, RZero, RZero, "none", RZero, RZero)
Inf(s) == Num("inf", s, RZero, RZero, "none", RZero, RZero)
Opq == Num("opq", 0, RZero, RZero, "none", RZero, RZero)
Rat(r) == Num("fin", 0, r, RZero, "none", RZero, RZero)
Lin(a, b, f, x, e) ==
    IF b = RZero \/ f = "none" THEN Rat(a) ELSE Num("fin", 0, a, b, f, x, e)
Q(n, d) == Rat(R(n, d))
Zero == Q(0, 1)
One == Q(1, 1)

IsRat(u) == u.k = "fin" /\ u.f = "none"
IsAtom(u) == u.k = "fin" /\ u.f # "none" /\ u.a = RZero /\ u.b = ROne
IsReal(u) == u.k = "fin"

\* Signs: "gt" (positive), "lt" (negative), "eq" (zero), Unknown.
Unknown == "unknown"
OfInt(i) == IF i > 0 THEN "gt" ELSE IF i < 0 THEN "lt" ELSE "eq"
SMul(s, t) ==
    IF s = Unknown \/ t = Unknown THEN Unknown
    ELSE IF s = "eq" \/ t = "eq" THEN "eq"
    ELSE IF s = t THEN "gt" ELSE "lt"

\* Sign of x^e - c for the irrational (or saturated) power x^e, x > 0.
PwVsRat(x, e, c) ==
    IF c.n <= 0 THEN "gt"
    ELSE LET k == e.d
             m == IAbs(e.n)
             \* x^m ? c^k (e > 0), 1 ? c^k * x^m (e < 0), cross-multiplied
             l == IF e.n > 0 THEN SatMul(IPow(x.n, m), IPow(c.d, k))
                             ELSE SatMul(IPow(c.d, k), IPow(x.d, m))
             r == IF e.n > 0 THEN SatMul(IPow(c.n, k), IPow(x.d, m))
                             ELSE SatMul(IPow(c.n, k), IPow(x.n, m))
             sat == l >= ExactCap \/ r >= ExactCap
         IN  IF sat \/ l = r THEN Unknown ELSE OfInt(l - r)

\* Sign of t - c for the atom t of u and a rational c.
AtomVsRat(u, c) ==
    CASE u.f = "pw"  -> PwVsRat(u.x, u.e, c)
      [] u.f = "sp"  -> IF c.n <= 0 THEN "gt" ELSE Unknown
      [] u.f = "exp" -> IF c.n <= 0 THEN "gt"
                        ELSE IF RLe(c, ROne) /\ u.x.n > 0 THEN "gt"
                        ELSE IF RLe(ROne, c) /\ u.x.n < 0 THEN "lt"
                        ELSE Unknown
      [] u.f = "ln"  -> IF c.n <= 0 /\ RLt(ROne, u.x) THEN "gt"
                        ELSE IF c.n >= 0 /\ RLt(u.x, ROne) THEN "lt"
                        ELSE Unknown
      [] OTHER       -> Unknown

Sign(u) ==
    CASE u.k = "inf" -> OfInt(u.s)
      [] u.k = "fin" /\ u.f = "none" -> OfInt(RSign(u.a))
      [] u.k = "fin" /\ u.f # "none" ->
            \* a + b*t = b * (t - (-a/b))
            SMul(OfInt(RSign(u.b)), AtomVsRat(u, RMul(RNeg(u.a), RInv(u.b))))
      [] OTHER -> Unknown

NNeg(u) ==
    CASE u.k = "inf" -> Inf(-u.s)
      [] u.k = "fin" -> Lin(RNeg(u.a), RNeg(u.b), u.f, u.x, u.e)
      [] OTHER -> u

NAdd(u, v) ==
    CASE u.k = "nan" \/ v.k = "nan" -> NaN
      [] u.k = "opq" \/ v.k = "opq" -> Opq
      [] u.k = "inf" /\ v.k = "inf" -> IF u.s = v.s THEN u ELSE NaN
      [] u.k = "inf" -> u
      [] v.k = "inf" -> v
      [] OTHER ->
            IF v.f = "none" THEN Lin(RAdd(u.a, v.a), u.b, u.f, u.x, u.e)
            ELSE IF u.f = "none" THEN Lin(RAdd(u.a, v.a), v.b, v.f, v.x, v.e)
            ELSE IF u.f = v.f /\ u.x = v.x /\ u.e = v.e
                 THEN Lin(RAdd(u.a, v.a), RAdd(u.b, v.b), u.f, u.x, u.e)
            ELSE Opq

NSub(u, v) == NAdd(u, NNeg(v))

NMul(u, v) ==
    CASE u.k = "nan" \/ v.k = "nan" -> NaN
      [] u.k = "opq" \/ v.k = "opq" -> Opq
      [] u.k = "inf" \/ v.k = "inf" ->
            LET s == SMul(Sign(u), Sign(v))
            IN  IF s = Unknown THEN Opq ELSE IF s = "eq" THEN NaN
                ELSE Inf(IF s = "gt" THEN 1 ELSE -1)
      [] OTHER ->
            IF v.f = "none" THEN Lin(RMul(u.a, v.a), RMul(u.b, v.a), u.f, u.x, u.e)
            ELSE IF u.f = "none" THEN Lin(RMul(u.a, v.a), RMul(u.a, v.b), v.f, v.x, v.e)
            ELSE Opq

NDiv(u, v) ==
    CASE u.k = "nan" \/ v.k = "nan" -> NaN
      [] u.k = "opq" \/ v.k = "opq" -> Opq
      [] v.k = "inf" -> IF u.k = "inf" THEN NaN ELSE Zero
      [] v = Zero ->
            LET s == Sign(u)
            IN  IF s = Unknown THEN Opq ELSE IF s = "eq" THEN NaN
                ELSE Inf(IF s = "gt" THEN 1 ELSE -1)
      [] IsRat(v) -> NMul(u, Rat(RInv(v.a)))
      [] OTHER -> Opq

NAbs(u) ==
    CASE u.k = "nan" -> NaN
      [] u.k = "opq" -> Opq
      [] OTHER ->
            LET s == Sign(u)
            IN  IF s = Unknown THEN Opq ELSE IF s = "lt" THEN NNeg(u) ELSE u

\* max(u, 0); relu of NaN depends on the backend version and is not tracked.
NRelu(u) ==
    CASE u.k = "nan" \/ u.k = "opq" -> Opq
      [] OTHER ->
            LET s == Sign(u)
            IN  IF s = Unknown THEN Opq ELSE IF s = "gt" THEN u ELSE Zero

\* Order of two numbers: "lt", "eq", "gt", "un" (unordered: a NaN), Unknown.
Cmp(u, v) ==
    CASE u.k = "nan" \/ v.k = "nan" -> "un"
      [] u.k = "opq" \/ v.k = "opq" -> Unknown
      [] u = v -> "eq"
      [] u.k = "fin" /\ v.k = "fin" /\ u.f # "none" /\ u.f = v.f
            /\ u.a = v.a /\ u.b = v.b /\ u.e = v.e ->
            \* the same increasing (decreasing: x^e, e < 0) function of x
            LET dir == IF u.f = "pw" /\ u.e.n < 0 THEN -1 ELSE 1
            IN  OfInt(RSign(u.b) * dir * RSign(RSub(u.x, v.x)))
      [] OTHER -> Sign(NSub(u, v))

NLt(u, v) == Cmp(u, v) = "lt"
NGt(u, v) == Cmp(u, v) = "gt"
NGe(u, v) == Cmp(u, v) \in {"gt", "eq"}

\* x^e for rationals x > 0 and e.
PowR(x, e) ==
    IF x = ROne \/ e = RZero THEN One
    ELSE IF RPowExact(x, e) THEN Rat(RPowValue(x, e))
    ELSE Lin(RZero, ROne, "pw", x, e)

NLog(u) ==
    CASE u.k = "nan" -> NaN
      [] u.k = "opq" -> Opq
      [] u.k = "inf" -> IF u.s = 1 THEN u ELSE NaN
      [] IsRat(u) ->
            IF u.a.n < 0 THEN NaN
            ELSE IF u.a.n = 0 THEN Inf(-1)
            ELSE IF u.a = ROne THEN Zero
            ELSE Lin(RZero, ROne, "ln", u.a, RZero)
      [] IsAtom(u) /\ u.f = "exp" -> Rat(u.x)
      [] IsAtom(u) /\ u.f = "pw" -> Lin(RZero, u.e, "ln", u.x, RZero)
      [] OTHER -> IF Sign(u) = "lt" THEN NaN ELSE Opq

NExp(u) ==
    CASE u.k = "nan" -> NaN
      [] u.k = "opq" -> Opq
      [] u.k = "inf" -> IF u.s = 1 THEN u ELSE Zero
      [] IsRat(u) -> IF u.a = RZero THEN One ELSE Lin(RZero, ROne, "exp", u.a, RZero)
      [] u.f = "ln" /\ u.a = RZero -> PowR(u.x, u.b)
      [] OTHER -> Opq

\* pow(u, v) with the special cases of IEEE 754 pow.
NPow(u, v) ==
    CASE v = Zero \/ u = One -> One
      [] u.k = "nan" \/ v.k = "nan" -> NaN
      [] u.k = "opq" \/ v.k = "opq" -> Opq
      [] v.k = "inf" ->
            IF ~IsRat(u) THEN Opq
            ELSE IF u.a = RNeg(ROne) THEN One
            ELSE LET big == RLt(ROne, u.a) \/ RLt(u.a, RNeg(ROne))
                 IN  IF big = (v.s = 1) THEN Inf(1) ELSE Zero
      [] ~IsRat(v) -> Opq
      [] u.k = "inf" ->
            IF v.a.n < 0 THEN Zero
            ELSE IF u.s = -1 /\ RIsInt(v.a) /\ v.a.n % 2 = 1 THEN Inf(-1)
            ELSE Inf(1)
      [] IsRat(u) ->
            IF u.a.n > 0 THEN PowR(u.a, v.a)
            ELSE IF u.a.n = 0 THEN (IF v.a.n > 0 THEN Zero ELSE Inf(1))
            ELSE IF ~RIsInt(v.a) THEN NaN
            ELSE IF v.a.n % 2 = 1 THEN NNeg(PowR(RNeg(u.a), v.a))
            ELSE PowR(RNeg(u.a), v.a)
      [] IsAtom(u) /\ u.f = "pw" -> PowR(u.x, RMul(u.e, v.a))
      [] IsAtom(u) /\ u.f = "exp" -> NExp(Rat(RMul(u.x, v.a)))
      [] OTHER -> IF Sign(u) = "lt" /\ ~RIsInt(v.a) THEN NaN ELSE Opq

(***************************************************************************)
(* The softplus helper of gluonts.distribution.distribution:               *)
(* log(1 + exp(x)), strictly positive for every finite x.                  *)
(***************************************************************************)
softplus(u) ==
    CASE u.k = "nan" -> NaN
      [] u.k = "inf" -> IF u.s = 1 THEN u ELSE Zero
      [] IsRat(u) -> Lin(RZero, ROne, "sp", u.a, RZero)
      [] OTHER -> Opq

(***************************************************************************)
(* The backend F: elementwise operations on tensors.  A Python float       *)
(* operand (1.0, tol_lambda_1, lb_obs) is broadcast over the tensor.       *)
(***************************************************************************)
Idx == 1..TensorLen

Full(t, s) == [i \in 1..Len(t) |-> s]

F_abs(t) == [i \in 1..Len(t) |-> NAbs(t[i])]
F_relu(t) == [i \in 1..Len(t) |-> NRelu(t[i])]
F_log(t) == [i \in 1..Len(t) |-> NLog(t[i])]
F_exp(t) == [i \in 1..Len(t) |-> NExp(t[i])]
F_neg(t) == [i \in 1..Len(t) |-> NNeg(t[i])]
F_softplus(t) == [i \in 1..Len(t) |-> softplus(t[i])]
F_ones_like(t) == Full(t, One)
F_ge(t, s) == [i \in 1..Len(t) |-> NGe(t[i], s)]
\* condition.broadcast_like(z): a one-element condition is repeated to z's shape.
broadcast_like(c, z) == [i \in 1..Len(z) |-> c[IF Len(c) = 1 THEN 1 ELSE i]]
\* where(condition, x, y): element i of x where the condition holds, else of y.
F_where(c, x, y) == [i \in 1..Len(c) |-> IF c[i] THEN x[i] ELSE y[i]]
\* F.power (mx.nd) or F.pow (mx.sym): the same elementwise power.
power(t, u) == [i \in 1..Len(t) |-> NPow(t[i], u[i])]

T_add(t, u) == [i \in 1..Len(t) |-> NAdd(t[i], u[i])]
T_sub(t, u) == [i \in 1..Len(t) |-> NSub(t[i], u[i])]
T_mul(t, u) == [i \in 1..Len(t) |-> NMul(t[i], u[i])]
T_div(t, u) == [i \in 1..Len(t) |-> NDiv(t[i], u[i])]
T_add_s(t, s) == T_add(t, Full(t, s))
T_sub_s(t, s) == T_sub(t, Full(t, s))
T_mul_s(t, s) == T_mul(t, Full(t, s))
S_div_t(s, t) == T_div(Full(t, s), t)

\* The raw network outputs carry a trailing axis: m[i] is a tensor of one element.
M_ones_like(m) == [i \in 1..Len(m) |-> F_ones_like(m[i])]
M_softplus(m) == [i \in 1..Len(m) |-> F_softplus(m[i])]
M_mul_s(m, s) == [i \in 1..Len(m) |-> T_mul_s(m[i], s)]
M_sub(m, n) == [i \in 1..Len(m) |-> T_sub(m[i], n[i])]
\* squeeze(axis=-1): the trailing axis of one element is dropped.
squeeze(m) == [i \in 1..Len(m) |-> m[i][1]]

(***************************************************************************)
(* BoxCoxTranform                                                          *)
(***************************************************************************)
event_dim == 0

\* Faulty variants of f, which the properties below must reject: the branch
\* of every element decided by the first element of lambda_1; the division by
\* lambda_1 left out.
f_branch_of_first_element(z) ==
    F_where([i \in 1..Len(z) |-> NGe(NAbs(lambda_1[1]), tol_lambda_1)],
            T_div(T_sub_s(power(T_add(z, lambda_2), lambda_1), One), lambda_1),
            F_log(T_add(z, lambda_2)))

f_without_division(z) ==
    F_where(broadcast_like(F_ge(F_abs(lambda_1), tol_lambda_1), z),
            T_sub_s(power(T_add(z, lambda_2), lambda_1), One),
            F_log(T_add(z, lambda_2)))

f(z) ==
    F_where(broadcast_like(F_ge(F_abs(lambda_1), tol_lambda_1), z),
            T_div(T_sub_s(power(T_add(z, lambda_2), lambda_1), One), lambda_1),
            F_log(T_add(z, lambda_2)))

\* Faulty variants of f_inv: the base not clamped at zero; y itself clamped,
\* so that the clamp reaches the log branch; the exponent lambda_1 instead of
\* 1 / lambda_1.
f_inv_without_clamp(y) ==
    LET base == T_add_s(T_mul(y, lambda_1), One)
    IN  F_where(F_ge(F_abs(lambda_1), tol_lambda_1),
                T_sub(power(base, S_div_t(One, lambda_1)), lambda_2),
                T_sub(F_exp(y), lambda_2))

f_inv_clamps_y(y) ==
    LET base == F_relu(T_add_s(T_mul(y, lambda_1), One))
    IN  F_where(F_ge(F_abs(lambda_1), tol_lambda_1),
                T_sub(power(base, S_div_t(One, lambda_1)), lambda_2),
                T_sub(F_exp(F_relu(y)), lambda_2))

f_inv_exponent_not_inverted(y) ==
    LET base == F_relu(T_add_s(T_mul(y, lambda_1), One))
    IN  F_where(F_ge(F_abs(lambda_1), tol_lambda_1),
                T_sub(power(base, lambda_1), lambda_2),
                T_sub(F_exp(y), lambda_2))

f_inv(y) ==
    LET base == F_relu(T_add_s(T_mul(y, lambda_1), One))
    IN  F_where(F_ge(F_abs(lambda_1), tol_lambda_1),
                T_sub(power(base, S_div_t(One, lambda_1)), lambda_2),
                T_sub(F_exp(y), lambda_2))

\* Faulty variant of log_abs_det_jac: a given y is taken for log(z + lambda_2)
\* in the log branch.
log_abs_det_jac_uses_y(z, y) ==
    F_where(F_ge(F_abs(lambda_1), tol_lambda_1),
            T_mul(F_log(T_add(z, lambda_2)), T_sub_s(lambda_1, One)),
            IF y = None THEN F_neg(F_log(T_add(z, lambda_2))) ELSE F_neg(y))

log_abs_det_jac(z, y) ==
    F_where(F_ge(F_abs(lambda_1), tol_lambda_1),
            T_mul(F_log(T_add(z, lambda_2)), T_sub_s(lambda_1, One)),
            F_neg(F_log(T_add(z, lambda_2))))

(***************************************************************************)
(* BoxCoxTransformOutput                                                   *)
(***************************************************************************)
event_shape == <<>>

\* Faulty variants of domain_map: the learned shift without softplus; the
\* fixed shift lb_obs * lambda_2 instead of lb_obs * ones_like(lambda_2).
domain_map_without_softplus(raw_1, raw_2) ==
    LET l2 == IF fix_lambda_2
              THEN M_mul_s(M_ones_like(raw_2), lb_obs)
              ELSE M_sub(raw_2, M_mul_s(M_ones_like(raw_2), lb_obs))
    IN  <<squeeze(raw_1), squeeze(l2)>>

domain_map_scales_raw(raw_1, raw_2) ==
    LET l2 == IF fix_lambda_2
              THEN M_mul_s(raw_2, lb_obs)
              ELSE M_sub(M_softplus(raw_2), M_mul_s(M_ones_like(raw_2), lb_obs))
    IN  <<squeeze(raw_1), squeeze(l2)>>

domain_map(raw_1, raw_2) ==
    LET l2 == IF fix_lambda_2
              THEN M_mul_s(M_ones_like(raw_2), lb_obs)
              ELSE M_sub(M_softplus(raw_2), M_mul_s(M_ones_like(raw_2), lb_obs))
    IN  <<squeeze(raw_1), squeeze(l2)>>

(***************************************************************************)
(* Inputs                                                                  *)
(***************************************************************************)
Tensors(S) == [Idx -> S]
\* Raw network outputs carry a trailing axis of one element.
RawTensors(S) == [Idx -> {<<v>> : v \in S}]

Lambda1Vals == {Q(-1, 1), Q(-1, 100), Zero, Q(1, 200), Q(1, 2), One}
Lambda2Vals == {Zero, One}
TolVals == {Q(1, 100), Q(1, 2)}
ZVals == {Q(-1, 1), One, Q(3, 1)}
YVals == {Q(-400, 1), Q(-2, 1), Q(2, 1)}
JacYVals == {None, [i \in Idx |-> Q(2, 1)]}
LbVals == {Q(-1, 1), Zero, Q(5, 1)}
Raw1Vals == {Q(-1, 2), One}
Raw2Vals == {Q(-3, 1), Zero, Q(2, 1)}

(***************************************************************************)
(* Actions                                                                 *)
(***************************************************************************)
Init ==
    /\ obj = "none"
    /\ lb_obs = None /\ fix_lambda_2 = None
    /\ lambda_1 = None /\ lambda_2 = None /\ tol_lambda_1 = None
    /\ op = "none" /\ arg = None /\ res = None /\ pre = None

\* BoxCoxTransformOutput.__init__(lb_obs, fix_lambda_2)
NewOutput ==
    /\ obj = "none"
    /\ \E lb \in LbVals, fix \in BOOLEAN :
          /\ lb_obs' = lb
          /\ fix_lambda_2' = fix
    /\ obj' = "BoxCoxTransformOutput"
    /\ op' = "__init__"
    /\ UNCHANGED <<lambda_1, lambda_2, tol_lambda_1, arg, res, pre>>

\* BoxCoxTransformOutput.domain_map(F, lambda_1, lambda_2)
DomainMap ==
    /\ obj = "BoxCoxTransformOutput"
    /\ \E raw_1 \in RawTensors(Raw1Vals), raw_2 \in RawTensors(Raw2Vals) :
          /\ arg' = <<raw_1, raw_2>>
          /\ res' = domain_map(raw_1, raw_2)
    /\ op' = "domain_map"
    /\ UNCHANGED <<obj, lb_obs, fix_lambda_2, lambda_1, lambda_2, tol_lambda_1, pre>>

\* BoxCoxTranform.__init__(lambda_1, lambda_2, tol_lambda_1)
NewTransform ==
    /\ obj = "none"
    /\ \E l1 \in Tensors(Lambda1Vals), l2 \in Tensors(Lambda2Vals), tol \in TolVals :
          /\ lambda_1' = l1
          /\ lambda_2' = l2
          /\ tol_lambda_1' = tol
    /\ obj' = "BoxCoxTranform"
    /\ op' = "__init__"
    /\ UNCHANGED <<lb_obs, fix_lambda_2, arg, res, pre>>

\* BoxCoxTranform.f(z)
F ==
    /\ obj = "BoxCoxTranform" /\ op = "__init__"
    /\ \E z \in Tensors(ZVals) :
          /\ arg' = <<z>>
          /\ res' = f(z)
    /\ op' = "f"
    /\ UNCHANGED <<obj, lb_obs, fix_lambda_2, lambda_1, lambda_2, tol_lambda_1, pre>>

\* BoxCoxTranform.f_inv(y), on a given y
FInv ==
    /\ obj = "BoxCoxTranform" /\ op = "__init__"
    /\ \E y \in Tensors(YVals) :
          /\ arg' = <<y>>
          /\ res' = f_inv(y)
    /\ op' = "f_inv"
    /\ UNCHANGED <<obj, lb_obs, fix_lambda_2, lambda_1, lambda_2, tol_lambda_1, pre>>

\* BoxCoxTranform.f_inv(y), on the result y of f(z).  A NaN in y is left out:
\* what relu makes of it depends on the backend's version.
FInvOfF ==
    /\ obj = "BoxCoxTranform" /\ op = "f"
    /\ \A i \in Idx : res[i].k # "nan"
    /\ arg' = <<res>>
    /\ res' = f_inv(res)
    /\ pre' = arg[1]
    /\ op' = "f_inv"
    /\ UNCHANGED <<obj, lb_obs, fix_lambda_2, lambda_1, lambda_2, tol_lambda_1>>

\* BoxCoxTranform.log_abs_det_jac(z, y)
LogAbsDetJac ==
    /\ obj = "BoxCoxTranform" /\ op = "__init__"
    /\ \E z \in Tensors(ZVals), y \in JacYVals :
          /\ arg' = <<z, y>>
          /\ res' = log_abs_det_jac(z, y)
    /\ op' = "log_abs_det_jac"
    /\ UNCHANGED <<obj, lb_obs, fix_lambda_2, lambda_1, lambda_2, tol_lambda_1, pre>>

Next ==
    \/ NewOutput
    \/ DomainMap
    \/ NewTransform
    \/ F
    \/ FInv
    \/ FInvOfF
    \/ LogAbsDetJac

Spec == Init /\ [][Next]_vars

(***************************************************************************)
(* Properties                                                              *)
(***************************************************************************)
\* The default tolerance of BoxCoxTranform.__init__.
DefaultTol == Q(1, 100)

\* Element i of the transform takes the power branch.
PowerBranch(i) == NGe(NAbs(lambda_1[i]), tol_lambda_1)

\* No call ever returns a value the model does not track.
ResultsTracked ==
    /\ op \in {"f", "f_inv", "log_abs_det_jac"} => \A i \in Idx : res[i].k # "opq"
    /\ op = "domain_map" => \A i \in Idx : res[1][i].k # "opq" /\ res[2][i].k # "opq"

\* C1: round trip.  When f_inv is applied to f(z), every element with
\* |lambda_1| >= tol_lambda_1 and z + lambda_2 > 0 gets z back.
C1_RoundTrip ==
    (op = "f_inv" /\ pre # None) =>
        \A i \in Idx :
            (PowerBranch(i) /\ NGt(NAdd(pre[i], lambda_2[i]), Zero)) => res[i] = pre[i]

\* A round trip through the power branch with a negative lambda_1 in one
\* element and an irrational intermediate value in another.
C1_Witness ==
    /\ op = "f_inv" /\ pre # None
    /\ \A i \in Idx : PowerBranch(i) /\ NGt(NAdd(pre[i], lambda_2[i]), Zero)
    /\ \E i \in Idx : lambda_1[i].a.n < 0
    /\ \E i \in Idx : arg[1][i].f = "pw"
    /\ res = pre

\* Observations the shift is tried on.
ObsVals == {Q(-1, 2), Q(1, 2), One, Q(6, 1)}

\* C2: the shift returned by domain_map keeps every observation above lb_obs
\* positive: observation + lambda_2 > 0, in the fixed as in the learned mode.
C2_ValidShift ==
    op = "domain_map" =>
        \A i \in Idx : \A obs \in ObsVals :
            NGt(obs, lb_obs) => NGt(NAdd(obs, res[2][i]), Zero)

\* Element i has lambda_1 = 1 and lambda_2 = 0, under the default tolerance.
ScalarCase(i) == lambda_1[i] = One /\ lambda_2[i] = Zero /\ tol_lambda_1 = DefaultTol

\* C3 as stated: with lambda_1 = 1, lambda_2 = 0 and the default tolerance,
\* f(z) = z - 1 for valid z and f_inv(y) = y + 1 for every y.

C3_ScalarCaseAsStated ==
    /\ op = "f" =>
          \A i \in Idx : (ScalarCase(i) /\ NGt(arg[1][i], Zero)) =>
              res[i] = NSub(arg[1][i], One)
    /\ op = "f_inv" =>
          \A i \in Idx : ScalarCase(i) => res[i] = NAdd(arg[1][i], One)

\* C3 amended: f(z) = z - 1 for valid z; f_inv(y) = y + 1 for y >= -1 and 0
\* for y < -1.
C3_ScalarCase ==
    /\ op = "f" =>
          \A i \in Idx : (ScalarCase(i) /\ NGt(arg[1][i], Zero)) =>
              res[i] = NSub(arg[1][i], One)
    /\ op = "f_inv" =>
          \A i \in Idx : (ScalarCase(i) /\ IsRat(arg[1][i])) =>
              res[i] = IF NGe(arg[1][i], Q(-1, 1)) THEN NAdd(arg[1][i], One) ELSE Zero

\* f_inv in the scalar case, one element above -1 and one below.
C3_Witness ==
    /\ op = "f_inv" /\ pre = None
    /\ \A i \in Idx : ScalarCase(i)
    /\ \E i \in Idx : arg[1][i] = Q(2, 1) /\ res[i] = Q(3, 1)
    /\ \E i \in Idx : arg[1][i] = Q(-2, 1) /\ res[i] = Zero

\* C4: for |lambda_1| >= tol_lambda_1 and y * lambda_1 + 1 < 0, f_inv(y) is
\* a real number (not NaN, not infinite), namely
\* relu(y * lambda_1 + 1)^(1 / lambda_1) - lambda_2.
C4_OutOfDomainInverseIsReal ==
    op = "f_inv" =>
        \A i \in Idx :
            (PowerBranch(i) /\ NLt(NAdd(NMul(arg[1][i], lambda_1[i]), One), Zero)) =>
                /\ IsReal(res[i])
                /\ res[i] = NSub(NPow(NRelu(NAdd(NMul(arg[1][i], lambda_1[i]), One)),
                                      NDiv(One, lambda_1[i])),
                                 lambda_2[i])

\* C5: f(z), element by element: ((z + lambda_2)^lambda_1 - 1) / lambda_1
\* when |lambda_1| >= tol_lambda_1, and log(z + lambda_2), whatever lambda_1
\* is, otherwise.
C5_ForwardBranches ==
    op = "f" =>
        \A i \in Idx :
            LET x == NAdd(arg[1][i], lambda_2[i])
            IN  IF NGe(NAbs(lambda_1[i]), tol_lambda_1)
                THEN res[i] = NDiv(NSub(NPow(x, lambda_1[i]), One), lambda_1[i])
                ELSE res[i] = NLog(x)

\* f on a tensor whose elements take different branches: one at the boundary
\* -lambda_1 = tol_lambda_1, one at lambda_1 = tol_lambda_1 / 2.
C5_Witness ==
    /\ op = "f"
    /\ \E i \in Idx :
          /\ NNeg(lambda_1[i]) = tol_lambda_1
          /\ res[i].f = "pw"
    /\ \E i \in Idx :
          /\ NAdd(lambda_1[i], lambda_1[i]) = tol_lambda_1
          /\ res[i].f = "ln" /\ res[i] = NLog(NAdd(arg[1][i], lambda_2[i]))

\* C6: f_inv(y), element by element: max(0, y * lambda_1 + 1)^(1 / lambda_1)
\* - lambda_2 when |lambda_1| >= tol_lambda_1, and exp(y) - lambda_2, whatever
\* lambda_1 and the clamp are, otherwise.
C6_InverseBranches ==
    op = "f_inv" =>
        \A i \in Idx :
            LET b    == NAdd(NMul(arg[1][i], lambda_1[i]), One)
                base == IF NGt(b, Zero) THEN b ELSE Zero
            IN  IF NGe(NAbs(lambda_1[i]), tol_lambda_1)
                THEN res[i] = NSub(NPow(base, NDiv(One, lambda_1[i])), lambda_2[i])
                ELSE res[i] = NSub(NExp(arg[1][i]), lambda_2[i])

\* f_inv where the clamp acts in one element of the power branch, and where
\* y * lambda_1 + 1 < 0 in an element of the log branch.
C6_Witness ==
    /\ op = "f_inv" /\ pre = None
    /\ \E i \in Idx :
          /\ PowerBranch(i)
          /\ NLt(NAdd(NMul(arg[1][i], lambda_1[i]), One), Zero)
          /\ res[i] = NNeg(lambda_2[i])
    /\ \E i \in Idx :
          /\ ~PowerBranch(i)
          /\ NLt(NAdd(NMul(arg[1][i], lambda_1[i]), One), Zero)
          /\ res[i].f = "exp"

\* C7: log_abs_det_jac(z, y), element by element:
\* log(z + lambda_2) * (lambda_1 - 1) when |lambda_1| >= tol_lambda_1 and
\* -log(z + lambda_2) otherwise, whatever y is.
C7_LogAbsDetJac ==
    op = "log_abs_det_jac" =>
        \A i \in Idx :
            LET x == NAdd(arg[1][i], lambda_2[i])
            IN  IF NGe(NAbs(lambda_1[i]), tol_lambda_1)
                THEN res[i] = NMul(NLog(x), NSub(lambda_1[i], One))
                ELSE res[i] = NNeg(NLog(x))

\* log_abs_det_jac called with a y, on elements of both branches.
C7_Witness ==
    /\ op = "log_abs_det_jac" /\ arg[2] # None
    /\ \E i \in Idx : PowerBranch(i) /\ res[i].f = "ln" /\ lambda_1[i].a.n < 0
    /\ \E i \in Idx : ~PowerBranch(i) /\ res[i].f = "ln" /\ res[i].b = RNeg(ROne)

\* C8: learned shift.  With fix_lambda_2 false, domain_map returns
\* lambda_2 = softplus(raw) - lb_obs, which is above -lb_obs, and returns
\* lambda_1 as given.
C8_LearnedShift ==
    (op = "domain_map" /\ ~fix_lambda_2) =>
        \A i \in Idx :
            /\ res[2][i] = NSub(softplus(arg[2][i][1]), lb_obs)
            /\ NGt(res[2][i], NNeg(lb_obs))
            /\ res[1][i] = arg[1][i][1]

\* domain_map in the learned mode with lb_obs = 5 on a negative raw value.
C8_Witness ==
    /\ op = "domain_map" /\ ~fix_lambda_2
    /\ lb_obs = Q(5, 1)
    /\ \E i \in Idx : arg[2][i][1].a.n < 0 /\ res[2][i].f = "sp"

\* C9: fixed shift.  With fix_lambda_2 true, every element of the lambda_2
\* returned by domain_map is lb_obs, and a call returns the same lambda_2 as
\* the call before it, whatever the raw values.
C9_FixedShift ==
    [][(op' = "domain_map" /\ fix_lambda_2') =>
          /\ \A i \in Idx : res'[2][i] = lb_obs'
          /\ op = "domain_map" => res'[2] = res[2]]_vars

\* domain_map in the fixed mode on raw values that differ from lb_obs and
\* from each other.
C9_Witness ==
    /\ op = "domain_map" /\ fix_lambda_2
    /\ lb_obs = Q(5, 1)
    /\ \E i, j \in Idx : arg[2][i] # arg[2][j]
    /\ \A i \in Idx : arg[2][i][1] # lb_obs /\ res[2][i] = lb_obs

\* C10: monotonicity.  Two elements of one call of f with the same
\* parameters: z1 < z2 and z1 + lambda_2 > 0 give f(z1) < f(z2).
C10_Monotonic ==
    op = "f" =>
        \A i, j \in Idx :
            ( /\ lambda_1[i] = lambda_1[j] /\ lambda_2[i] = lambda_2[j]
              /\ NLt(arg[1][i], arg[1][j])
              /\ NGt(NAdd(arg[1][i], lambda_2[i]), Zero) ) => NLt(res[i], res[j])

\* Two valid observations under one negative lambda_1 of the power branch.
C10_Witness ==
    /\ op = "f"
    /\ \E i, j \in Idx :
          /\ lambda_1[i] = lambda_1[j] /\ lambda_2[i] = lambda_2[j]
          /\ lambda_1[i].a.n < 0 /\ PowerBranch(i)
          /\ NLt(arg[1][i], arg[1][j])
          /\ NGt(NAdd(arg[1][i], lambda_2[i]), Zero)
          /\ res[i].f = "pw" /\ NLt(res[i], res[j])

====
